---- MODULE Spec2Model ----
(***************************************************************************)
(* Project Tracker (src/project_tracker.c): a GTK to-do list whose rows    *)
(* (check button + label) are written to and read from "tasks.txt".        *)
(*                                                                         *)
(* A string is a sequence of one-character strings; the file is either     *)
(* absent or a sequence of such characters.  A row of the GtkListBox is    *)
(* the record [text, active]: the label's text and the check button's      *)
(* state.  What the user typed into the entry and which rows the user      *)
(* selected are inputs of the handlers that read them.  Two specifications *)
(* are given: Spec is the running application (activate and the four       *)
(* signal handlers), SpecIO applies save_tasks_to_file and                 *)
(* load_tasks_from_file to lists and file contents drawn from bounded      *)
(* sets.                                                                   *)
(***************************************************************************)
EXTENDS Naturals, Integers, Sequences, FiniteSets, TLC

VARIABLES phase, rows, file, last, dirty

vars == <<phase, rows, file, last, dirty>>

(***************************************************************************)
(* Bounds of the model.                                                    *)
(***************************************************************************)
\* rows the list box may hold after an add
MaxTasks == 2
\* rows that may be selected at once when "Remove Selected" is clicked.
\* (GTK's default selection mode keeps at most one row selected; the loop
\* of on_remove_button_clicked is written for any number of rows and is
\* checked here for up to MaxSelected.)
MaxSelected == 2
\* length of the short file contents enumerated in SpecIO
MaxFileLen == 4
\* length of the short task texts enumerated in SpecIO
MaxTextLen == 2
\* length of the lists enumerated in SpecIO
MaxIOTasks == 2
\* how far around the line buffer's size the long texts and lines range
Slack == 1

(***************************************************************************)
(* Characters and strings.                                                 *)
(***************************************************************************)
NL == "\n"
SEP == ";"

\* char line[1024]
sizeof_line == 1024

NoFile == [exists |-> FALSE, bytes |-> <<>>]
FileOf(bytes) == [exists |-> TRUE, bytes |-> bytes]

Min(a, b) == IF a < b THEN a ELSE b

\* strchr(s, c): index of the first c in s, 0 when there is none
strchr(s, c) ==
    LET hits == {i \in 1..Len(s) : s[i] = c}
    IN  IF hits = {} THEN 0 ELSE CHOOSE i \in hits : \A j \in hits : i <= j

\* the n-character string cc...c
Pad(c, n) == [i \in 1..n |-> c]

\* all strings over alphabet A of length at most n
RECURSIVE StringsUpTo(_, _)
StringsUpTo(A, n) ==
    IF n = 0 THEN {<<>>}
    ELSE LET shorter == StringsUpTo(A, n - 1)
         IN  shorter \cup {Append(s, c) : s \in {t \in shorter : Len(t) = n - 1}, c \in A}

\* all lists over S of length at most n
RECURSIVE ListsUpTo(_, _)
ListsUpTo(S, n) ==
    IF n = 0 THEN {<<>>}
    ELSE LET shorter == ListsUpTo(S, n - 1)
         IN  shorter \cup {Append(l, x) : l \in {t \in shorter : Len(t) = n - 1}, x \in S}

(***************************************************************************)
(* atoi: optional white space, optional sign, then decimal digits.         *)
(***************************************************************************)
IsSpace(c) == c \in {" ", "\t", "\n", "\r"}
IsDigit(c) == c \in {"0", "1", "2", "3", "4", "5", "6", "7", "8", "9"}
DigitVal(c) ==
    CASE c = "0" -> 0 [] c = "1" -> 1 [] c = "2" -> 2 [] c = "3" -> 3
      [] c = "4" -> 4 [] c = "5" -> 5 [] c = "6" -> 6 [] c = "7" -> 7
      [] c = "8" -> 8 [] c = "9" -> 9

RECURSIVE SkipSpace(_)
SkipSpace(s) == IF s # <<>> /\ IsSpace(Head(s)) THEN SkipSpace(Tail(s)) ELSE s

RECURSIVE Digits(_, _)
Digits(s, acc) ==
    IF s # <<>> /\ IsDigit(Head(s)) THEN Digits(Tail(s), 10 * acc + DigitVal(Head(s)))
    ELSE acc

atoi(s) ==
    LET t == SkipSpace(s)
    IN  IF t # <<>> /\ Head(t) = "-" THEN 0 - Digits(Tail(t), 0)
        ELSE IF t # <<>> /\ Head(t) = "+" THEN Digits(Tail(t), 0)
        ELSE Digits(t, 0)

(***************************************************************************)
(* create_list_item: a row whose check button is set to is_completed       *)
(* before on_check_button_toggled is connected to it, so that creating a   *)
(* row runs the handler zero times.                                        *)
(***************************************************************************)
\* the handler connected before the state is set
ConnectedBeforeSetActive == TRUE

\* handlers connected to the new check button's "toggled" signal when
\* gtk_toggle_button_set_active runs (the connect is the next statement)
ConnectedAtSetActive == FALSE

create_list_item(text, is_completed) ==
    [text |-> text, active |-> is_completed]

\* how often creating the row calls on_check_button_toggled: a new check
\* button is inactive, and set_active emits "toggled" only on a change
create_list_item_toggled(is_completed) ==
    IF is_completed /\ ConnectedAtSetActive THEN 1 ELSE 0

\* a container that puts the new row first
gtk_container_add_first(list, item) == <<item>> \o list

\* gtk_container_add(GTK_CONTAINER(list_box), list_item)
gtk_container_add(list, item) == Append(list, item)

(***************************************************************************)
(* save_tasks_to_file                                                      *)
(***************************************************************************)
\* printf's %d of a gboolean
FormatD(b) == IF b THEN <<"1">> ELSE <<"0">>

\* fprintf(file, "%d;%s\n", is_completed, text)
fprintf_task(row) == FormatD(row.active) \o <<SEP>> \o row.text \o <<NL>>

\* the while loop over the rows, from index 0 upwards
RECURSIVE WriteRows(_)
WriteRows(list) ==
    IF list = <<>> THEN <<>> ELSE fprintf_task(Head(list)) \o WriteRows(Tail(list))

\* a save that leaves an empty file behind when it cannot open it
save_tasks_truncating(list, f, can_open) ==
    IF ~can_open THEN FileOf(<<>>) ELSE FileOf(WriteRows(list))

\* a save that opens the file for appending, as mode "a" does
save_tasks_appending(list, f, can_open) ==
    IF ~can_open THEN f ELSE FileOf(f.bytes \o WriteRows(list))

\* can_open: whether fopen("tasks.txt", "w") succeeds
save_tasks_to_file(list, f, can_open) ==
    IF ~can_open THEN f ELSE FileOf(WriteRows(list))

(***************************************************************************)
(* load_tasks_from_file                                                    *)
(***************************************************************************)
\* an fopen that makes the file when there is none, as mode "a+" does
fopen_a_plus(f) == IF f.exists THEN f ELSE FileOf(<<>>)

\* tasks.txt after fopen("tasks.txt", "r") and the reading: as it was, and
\* not made when it is missing
fopen_r(f) == f

\* fgets(line, n, file): how many characters of the rest of the stream it
\* puts in the buffer: up to and including the first newline, and at most
\* n - 1
fgets_len(bytes, n) ==
    LET nl == strchr(bytes, NL)
    IN  IF nl # 0 /\ nl <= n - 1 THEN nl ELSE Min(n - 1, Len(bytes))

\* a loop body that leaves the newline in the text
ParseLine_keeping_newline(line) ==
    LET semicolon_pos == strchr(line, SEP)
    IN  IF semicolon_pos # 0
        THEN [text |-> SubSeq(line, semicolon_pos + 1, Len(line)),
              is_completed |-> atoi(SubSeq(line, 1, semicolon_pos - 1)) = 1]
        ELSE [text |-> line, is_completed |-> FALSE]

\* the body of the while loop: the buffer's content to (text, is_completed)
ParseLine(line) ==
    LET semicolon_pos == strchr(line, SEP)
        is_completed  == IF semicolon_pos # 0
                         THEN atoi(SubSeq(line, 1, semicolon_pos - 1)) = 1
                         ELSE FALSE
        text0         == IF semicolon_pos # 0
                         THEN SubSeq(line, semicolon_pos + 1, Len(line))
                         ELSE line
        newline_pos   == strchr(text0, NL)
        text          == IF newline_pos # 0 THEN SubSeq(text0, 1, newline_pos - 1)
                         ELSE text0
    IN  [text |-> text, is_completed |-> is_completed]

\* the while loop: one row per successful fgets
RECURSIVE ReadLines(_, _)
ReadLines(list, bytes) ==
    IF bytes = <<>> THEN list
    ELSE LET k == fgets_len(bytes, sizeof_line)
             p == ParseLine(SubSeq(bytes, 1, k))
         IN  ReadLines(gtk_container_add(list, create_list_item(p.text, p.is_completed)),
                       SubSeq(bytes, k + 1, Len(bytes)))

load_tasks_from_file(list, f) ==
    IF ~f.exists THEN list ELSE ReadLines(list, f.bytes)

\* calls of on_check_button_toggled (each one a save) made while loading
RECURSIVE CountToggled(_)
CountToggled(list) ==
    IF list = <<>> THEN 0
    ELSE create_list_item_toggled(Head(list).active) + CountToggled(Tail(list))

load_saves(list, f) == CountToggled(load_tasks_from_file(list, f))

(***************************************************************************)
(* The handlers' effect on the list box.  Each yields the new list, and    *)
(* the lists that its calls of save_tasks_to_file were given, in order.    *)
(***************************************************************************)
\* on_add_button_clicked, for the entry's text
add_result(list, text) ==
    IF Len(text) > 0
    THEN LET added == gtk_container_add(list, create_list_item(text, FALSE))
         IN  [rows |-> added, saves |-> <<added>>]
    ELSE [rows |-> list, saves |-> <<>>]

\* a toggle handler that saves what the list was before the click
toggle_result_stale(list, i) ==
    [rows |-> [list EXCEPT ![i].active = ~@], saves |-> <<list>>]

\* a check button that a click can only set
toggle_result_set(list, i) ==
    LET set == [list EXCEPT ![i].active = TRUE]
    IN  [rows |-> set, saves |-> <<set>>]

\* the check button of row i changes state, then on_check_button_toggled
\* saves the list box the button is in
toggle_result(list, i) ==
    LET flipped == [list EXCEPT ![i].active = ~@]
    IN  [rows |-> flipped, saves |-> <<flipped>>]

\* rows are widgets: inside a handler a row is known by the position it had
\* when the handler started
Tag(list) == [i \in 1..Len(list) |-> [id |-> i, row |-> list[i]]]
Untag(tagged) == [i \in 1..Len(tagged) |-> tagged[i].row]

\* a removal by the position the row had, in the list as it is now
gtk_container_remove_at(tagged, id) ==
    IF id > Len(tagged) THEN tagged
    ELSE [k \in 1..(Len(tagged) - 1) |-> IF k < id THEN tagged[k] ELSE tagged[k + 1]]

\* gtk_container_remove(GTK_CONTAINER(list_box), row)
gtk_container_remove(tagged, id) == SelectSeq(tagged, LAMBDA r : r.id # id)

\* gtk_list_box_get_selected_rows: the selected rows, in list order
RECURSIVE get_selected_rows(_)
get_selected_rows(sel) ==
    IF sel = {} THEN <<>>
    ELSE LET m == CHOOSE i \in sel : \A j \in sel : i <= j
         IN  <<m>> \o get_selected_rows(sel \ {m})

\* the for loop of on_remove_button_clicked
RECURSIVE remove_loop(_, _)
remove_loop(tagged, iter) ==
    IF iter = <<>> THEN tagged
    ELSE remove_loop(gtk_container_remove(tagged, Head(iter)), Tail(iter))

\* a remove handler that saves inside its loop, after each removal
remove_result_save_each(list, sel) ==
    LET selected_rows == get_selected_rows(sel)
        after(k)      == Untag(remove_loop(Tag(list), SubSeq(selected_rows, 1, k)))
    IN  [rows  |-> after(Len(selected_rows)),
         saves |-> [k \in 1..Len(selected_rows) |-> after(k)]]

\* a remove handler that saves whether or not a row was selected
remove_result_always_saving(list, sel) ==
    LET left == Untag(remove_loop(Tag(list), get_selected_rows(sel)))
    IN  [rows |-> left, saves |-> <<left>>]

\* on_remove_button_clicked, for the set of selected rows
remove_result(list, sel) ==
    LET selected_rows == get_selected_rows(sel)
    IN  IF selected_rows # <<>>
        THEN LET left == Untag(remove_loop(Tag(list), selected_rows))
             IN  [rows |-> left, saves |-> <<left>>]
        ELSE [rows |-> list, saves |-> <<>>]

\* a destroy handler that does not save
destroy_result_unsaved(list) == [rows |-> list, saves |-> <<>>]

\* on_window_destroy: the list box is saved as it is
destroy_result(list) == [rows |-> list, saves |-> <<list>>]

\* the file after a handler's saves; can_open: whether fopen succeeds
RECURSIVE after_saves(_, _, _)
after_saves(saves, f, can_open) ==
    IF saves = <<>> THEN f
    ELSE after_saves(Tail(saves), save_tasks_to_file(Head(saves), f, can_open), can_open)

(***************************************************************************)
(* The running application.                                                *)
(***************************************************************************)
\* what the entry may hold when the add button is clicked
EntryTexts == {<<>>, <<" ">>, <<"a">>}

\* the sets of rows that may be selected when the remove button is clicked
Selections(list) == {sel \in SUBSET (1..Len(list)) : Cardinality(sel) <= MaxSelected}

\* tasks.txt when the application is first started
StartFiles ==
    {NoFile, FileOf(<<NL>>), FileOf(<<"a">>), FileOf(<<"1", ";", "a", NL>>)}

\* the record of the last handler that ran: which one, on which row or
\* rows, the list it found, the lists its saves were given, whether those
\* saves could open the file, and whether a failed save was outstanding
NoOp == [op |-> "none", arg |-> 0, pre |-> <<>>, saves |-> <<>>, opened |-> FALSE,
         wasDirty |-> FALSE]

\* the record of a handler's run
Ran(op, arg, saves, can_open) ==
    [op |-> op, arg |-> arg, pre |-> rows, saves |-> saves,
     opened |-> (saves # <<>> /\ can_open), wasDirty |-> dirty]

\* a failed save leaves the list unsaved until a save succeeds
DirtyAfter(saves, can_open) == IF saves = <<>> THEN dirty ELSE ~can_open

Init ==
    /\ phase = "stopped"
    /\ rows = <<>>
    /\ file \in StartFiles
    /\ last = NoOp
    /\ dirty = FALSE

\* main, activate: a new empty list box, then load_tasks_from_file
activate ==
    /\ phase = "stopped"
    /\ phase' = "running"
    /\ LET loaded == load_tasks_from_file(<<>>, file)
           n      == load_saves(<<>>, file)
           saves  == [i \in 1..n |-> loaded]
       IN  /\ rows' = loaded
           /\ file' = after_saves(saves, fopen_r(file), TRUE)
           /\ last' = [Ran("load", 0, saves, TRUE) EXCEPT !.pre = <<>>]
    /\ dirty' = FALSE

\* "clicked" on the add button, or "activate" on the entry
on_add_button_clicked ==
    /\ phase = "running"
    /\ \E text \in EntryTexts, can_open \in BOOLEAN :
          LET r == add_result(rows, text)
          IN  /\ Len(r.rows) <= MaxTasks
              /\ rows' = r.rows
              /\ file' = after_saves(r.saves, file, can_open)
              /\ last' = Ran("add", text, r.saves, can_open)
              /\ dirty' = DirtyAfter(r.saves, can_open)
    /\ UNCHANGED phase

\* "clicked" on the remove button
on_remove_button_clicked ==
    /\ phase = "running"
    /\ \E selected \in Selections(rows), can_open \in BOOLEAN :
          LET r == remove_result(rows, selected)
          IN  /\ rows' = r.rows
              /\ file' = after_saves(r.saves, file, can_open)
              /\ last' = Ran("remove", selected, r.saves, can_open)
              /\ dirty' = DirtyAfter(r.saves, can_open)
    /\ UNCHANGED phase

\* the user clicks the check button of a row: "toggled"
on_check_button_toggled ==
    /\ phase = "running"
    /\ \E i \in 1..Len(rows), can_open \in BOOLEAN :
          LET r == toggle_result(rows, i)
          IN  /\ rows' = r.rows
              /\ file' = after_saves(r.saves, file, can_open)
              /\ last' = Ran("toggle", i, r.saves, can_open)
              /\ dirty' = DirtyAfter(r.saves, can_open)
    /\ UNCHANGED phase

\* "destroy" of the window: the last save, then the process ends
on_window_destroy ==
    /\ phase = "running"
    /\ phase' = "stopped"
    /\ \E can_open \in BOOLEAN :
          LET r == destroy_result(rows)
          IN  /\ rows' = r.rows
              /\ file' = after_saves(r.saves, file, can_open)
              /\ last' = Ran("destroy", 0, r.saves, can_open)
              /\ dirty' = DirtyAfter(r.saves, can_open)

Next ==
    \/ activate
    \/ on_add_button_clicked
    \/ on_remove_button_clicked
    \/ on_check_button_toggled
    \/ on_window_destroy

Spec == Init /\ [][Next]_vars

(***************************************************************************)
(* save_tasks_to_file and load_tasks_from_file on their own: a list is     *)
(* saved and the file read back into an empty list box, or a file is read  *)
(* and the list written back.  phase tells what produced the state:        *)
(* "io" nothing yet, "saved" a save that opened the file, "resaved" such a *)
(* save right after another, "loaded" a load, "reloaded" a load of what    *)
(* the save before it wrote.                                               *)
(***************************************************************************)
TextChars == {"a", SEP}
FileChars == {"0", "1", "a", SEP, NL}

\* texts about as long as the line buffer, without and with a separator
LongTexts ==
    {pre \o Pad("a", n - Len(pre)) :
        pre \in {<<>>, <<"a", SEP>>},
        n \in (sizeof_line - 3 - Slack)..(sizeof_line - 3 + Slack)}

\* lines about as long as the line buffer, with or without a flag and a
\* terminator
LongLines ==
    {pre \o t \o post : pre \in {<<>>, <<"1", SEP>>}, t \in LongTexts, post \in {<<>>, <<NL>>}}

\* the lists given to save: lists of tasks with short texts, and a task
\* with a long text alone or followed by one with a short text
IOTexts == StringsUpTo(TextChars, MaxTextLen)
IOTasks == [text : IOTexts, active : BOOLEAN]
IOLongTasks == [text : LongTexts, active : BOOLEAN]
IOLists ==
    ListsUpTo(IOTasks, MaxIOTasks)
        \cup {<<t>> : t \in IOLongTasks}
        \cup {<<t, u>> : t \in IOLongTasks, u \in IOTasks}
IOFiles == {FileOf(b) : b \in StringsUpTo(FileChars, MaxFileLen) \cup LongLines}

InitIO ==
    /\ phase = "io"
    /\ last = NoOp
    /\ dirty = FALSE
    /\ \/ rows \in IOLists /\ file = NoFile
       \/ rows = <<>> /\ file \in IOFiles

\* save_tasks_to_file(list_box)
io_save ==
    /\ phase \in {"io", "saved", "resaved", "loaded", "reloaded"}
    /\ Len(rows) <= MaxIOTasks + 1
    /\ \E can_open \in BOOLEAN :
          /\ file' = save_tasks_to_file(rows, file, can_open)
          /\ last' = Ran("save", 0, <<rows>>, can_open)
          /\ dirty' = DirtyAfter(<<rows>>, can_open)
          /\ phase' = IF ~can_open THEN phase
                       ELSE IF phase \in {"saved", "resaved"} THEN "resaved"
                       ELSE "saved"
    /\ UNCHANGED rows

\* load_tasks_from_file(list_box), the list box being new and empty
io_load ==
    /\ phase \in {"io", "saved", "resaved"}
    /\ LET loaded == load_tasks_from_file(<<>>, file)
           n      == load_saves(<<>>, file)
           saves  == [i \in 1..n |-> loaded]
       IN  /\ rows' = loaded
           /\ file' = after_saves(saves, fopen_r(file), TRUE)
           /\ last' = Ran("load", 0, saves, TRUE)
    /\ phase' = IF phase \in {"saved", "resaved"} THEN "reloaded" ELSE "loaded"
    /\ UNCHANGED dirty

NextIO ==
    \/ io_save
    \/ io_load

SpecIO == InitIO /\ [][NextIO]_vars

(***************************************************************************)
(* What the properties are stated with.                                    *)
(***************************************************************************)
\* the line "<0|1>;<text>\n" of a task
TaskLine(t) == <<IF t.active THEN "1" ELSE "0", ";">> \o t.text \o <<"\n">>

\* the lines of the first n tasks of a list, one after the other
RECURSIVE LinesOfFirst(_, _)
LinesOfFirst(list, n) ==
    IF n = 0 THEN <<>> ELSE LinesOfFirst(list, n - 1) \o TaskLine(list[n])

\* tasks.txt holds exactly one line per task of the list, in list order
FileHolds(list) == file.exists /\ file.bytes = LinesOfFirst(list, Len(list))

Contains(s, c) == \E i \in 1..Len(s) : s[i] = c

AllWhitespace(s) == \A i \in 1..Len(s) : s[i] \in {" ", "\t", "\n", "\r"}

\* the last handler changed the list (or was asked to) and then saved
Mutated ==
    \/ last.op = "add" /\ Len(last.arg) > 0
    \/ last.op = "toggle"
    \/ last.op = "remove" /\ last.arg # {}

\* no text of the list has a separator or a newline in it
PlainTexts(list) ==
    \A i \in 1..Len(list) : ~Contains(list[i].text, ";") /\ ~Contains(list[i].text, "\n")

(***************************************************************************)
(* C1: once an add that accepted its text, a toggle or a remove of a       *)
(* non-empty selection has completed and its save could open the file,     *)
(* tasks.txt is exactly one line "<0|1>;<text>\n" per task of the list in  *)
(* memory, in list order.                                                  *)
(***************************************************************************)
C1_FileFollowsList == (Mutated /\ last.opened) => FileHolds(rows)

C1_Witness ==
    /\ last.op = "toggle" /\ last.opened
    /\ Len(rows) = 2 /\ rows[1].active /\ ~rows[2].active
    /\ FileHolds(rows)

(***************************************************************************)
(* C2: a list whose texts have no ';' and no newline, of whatever length,  *)
(* is the same list after save_tasks_to_file followed by                   *)
(* load_tasks_from_file into an empty list box.                            *)
(***************************************************************************)
C2_RoundTrip == (phase = "reloaded" /\ PlainTexts(last.pre)) => rows = last.pre

(***************************************************************************)
(* C3: an add whose entry text is empty or all white space leaves the list *)
(* as it was.                                                              *)
(***************************************************************************)
C3_AddRejectsBlank == (last.op = "add" /\ AllWhitespace(last.arg)) => rows = last.pre

(***************************************************************************)
(* C4: every task of the list has a non-empty text, in every state.        *)
(***************************************************************************)
C4_TextsNonEmpty == \A i \in 1..Len(rows) : Len(rows[i].text) > 0

(***************************************************************************)
(* C5: an add that accepts its text makes the list one longer, the new     *)
(* last task having the entered text and being not completed, and leaves   *)
(* every task that was there at its place, with its text and flag.         *)
(***************************************************************************)
C5_AddAppends ==
    (last.op = "add" /\ Len(last.arg) > 0) =>
        /\ Len(rows) = Len(last.pre) + 1
        /\ rows[Len(rows)] = [text |-> last.arg, active |-> FALSE]
        /\ \A i \in 1..Len(last.pre) : rows[i] = last.pre[i]

C5_Witness ==
    /\ last.op = "add" /\ Len(last.arg) > 0
    /\ Len(last.pre) = 1 /\ last.pre[1].active
    /\ Len(rows) = 2 /\ rows[2].text # rows[1].text

(***************************************************************************)
(* C6: a toggle inverts the completed flag of the task it is about and     *)
(* leaves that task's text, every other task and the length and order of   *)
(* the list as they were; a second toggle of the same task right after the *)
(* first gives back the list there was before the first.                   *)
(***************************************************************************)
ToggleFlipsOne ==
    last.op = "toggle" =>
        /\ Len(rows) = Len(last.pre)
        /\ \A i \in 1..Len(rows) :
              /\ rows[i].text = last.pre[i].text
              /\ rows[i].active = IF i = last.arg THEN ~last.pre[i].active
                                  ELSE last.pre[i].active

ToggleTwiceRestores ==
    (last.op = "toggle" /\ last'.op = "toggle" /\ last'.arg = last.arg) => rows' = last.pre

C6_ToggleFlipsOne == []ToggleFlipsOne /\ [][ToggleTwiceRestores]_vars

C6_Witness ==
    /\ last.op = "toggle" /\ last.arg = 2
    /\ Len(rows) = 2 /\ rows[2].active /\ ~rows[1].active
    /\ rows[1].text # rows[2].text

(***************************************************************************)
(* C7: after a remove the list holds exactly the tasks that were not       *)
(* selected, each with its text and flag, in the order they were in.       *)
(***************************************************************************)
\* the positions that were not selected, and the k-th of them
KeptPositions == {i \in 1..Len(last.pre) : i \notin last.arg}
KthKept(k) == CHOOSE i \in KeptPositions : Cardinality({j \in KeptPositions : j <= i}) = k

C8_RemoveSavesOnce ==
    (last.op = "remove" /\ last.arg # {}) =>
        /\ Len(last.saves) = 1
        /\ Len(last.saves[1]) = Len(last.pre) - Cardinality(last.arg)
        /\ last.saves[1] = rows

C8_Witness ==
    /\ last.op = "remove" /\ Cardinality(last.arg) = 2
    /\ Len(last.saves) = 1 /\ last.opened
    /\ FileHolds(rows)

(***************************************************************************)
(* C9: when a handler's save cannot open tasks.txt the handler still       *)
(* completes, the list keeps the handler's change and the file is left as  *)
(* it was; the next save that can open the file, of a later handler or of  *)
(* the window's destroy, writes the whole list including that change.      *)
(***************************************************************************)
SaveFailedStep ==
    (last'.saves # <<>> /\ ~last'.opened) =>
        /\ file' = file
        /\ dirty'
        /\ phase' = IF last'.op = "destroy" THEN "stopped" ELSE "running"
        /\ last'.op = "add" => rows' = Append(rows, [text |-> last'.arg, active |-> FALSE])
        /\ last'.op = "toggle" =>
              /\ Len(rows') = Len(rows)
              /\ rows'[last'.arg].active = ~rows[last'.arg].active
        /\ last'.op = "remove" => Len(rows') = Len(rows) - Cardinality(last'.arg)
        /\ last'.op = "destroy" => rows' = rows

SaveAfterFailure == (last.opened /\ last.wasDirty) => (FileHolds(rows) /\ ~dirty)

C9_SaveFailureRecoverable == []SaveAfterFailure /\ [][SaveFailedStep]_vars

C9_Witness ==
    /\ last.opened /\ last.wasDirty
    /\ Len(rows) = 2
    /\ FileHolds(rows)

(***************************************************************************)
(* C10: a line without ';' loads as a task that is not completed and whose *)
(* text is the whole line without its terminator; a line with ';' loads as *)
(* a task whose text is what follows the first ';', terminator excluded,   *)
(* and that is completed exactly when the integer value of what precedes   *)
(* the first ';' is 1.                                                     *)
(***************************************************************************)
\* the file is one line: not empty, and no newline but at its end
OneLine(b) == b # <<>> /\ \A i \in 1..(Len(b) - 1) : b[i] # "\n"
Unterminated(b) == IF b[Len(b)] = "\n" THEN SubSeq(b, 1, Len(b) - 1) ELSE b

LineAsTask(b) ==
    LET body == Unterminated(b)
    IN  IF ~Contains(body, ";") THEN [text |-> body, active |-> FALSE]
        ELSE LET k == CHOOSE k \in 1..Len(body) :
                          body[k] = ";" /\ \A j \in 1..(k - 1) : body[j] # ";"
             IN  [text |-> SubSeq(body, k + 1, Len(body)),
                  active |-> (atoi(SubSeq(body, 1, k - 1)) = 1)]

C10_LineParsing ==
    (last.op = "load" /\ file.exists /\ OneLine(file.bytes)) =>
        rows = <<LineAsTask(file.bytes)>>

(***************************************************************************)
(* C11: when there is no tasks.txt, the load at startup leaves the list    *)
(* empty, the application runs on, and the file is neither made nor        *)
(* written.                                                                *)
(***************************************************************************)
LoadOfMissingFile ==
    (last'.op = "load" /\ ~file.exists) =>
        /\ rows' = <<>>
        /\ phase' = "running"
        /\ file' = file
        /\ last'.saves = <<>>

C11_MissingFileOnLoad == [][LoadOfMissingFile]_vars

\* a start after a session none of whose saves could make the file
C11_Witness ==
    /\ last.op = "load" /\ last.wasDirty
    /\ ~file.exists
    /\ rows = <<>> /\ phase = "running"

(***************************************************************************)
(* C12: the destroy handler saves whether or not the list changed since    *)
(* the save before: when its save opens the file, the file is the lines of *)
(* the final list; when the operation before had saved too, the file is    *)
(* what it was before the destroy.                                         *)
(***************************************************************************)
DestroySaves ==
    last.op = "destroy" =>
        /\ last.saves = <<rows>>
        /\ rows = last.pre
        /\ last.opened => FileHolds(rows)

DestroyAfterSave ==
    (last.opened /\ last'.op = "destroy" /\ last'.opened) => file' = file

C12_ShutdownPersists == []DestroySaves /\ [][DestroyAfterSave]_vars

\* the application has ended with a save that opened the file
C12_Witness ==
    /\ last.op = "destroy" /\ last.opened /\ phase = "stopped"
    /\ rows = <<[text |-> <<"a">>, active |-> FALSE]>>
    /\ FileHolds(rows)

(***************************************************************************)
(* C13: of two saves one right after the other that both open the file,    *)
(* the second leaves in tasks.txt the very bytes the first wrote; no save  *)
(* changes the list.                                                       *)
(***************************************************************************)
SecondSaveSameBytes ==
    /\ (phase \in {"saved", "resaved"} /\ last'.op = "save" /\ last'.opened) => file' = file
    /\ last'.op = "save" => rows' = rows

C13_SaveIdempotent == [][SecondSaveSameBytes]_vars

C13_Witness ==
    /\ phase = "resaved" /\ last.op = "save" /\ last.opened
    /\ Len(rows) = 2 /\ rows[1].active
    /\ FileHolds(rows)

(***************************************************************************)
(* C14: a task whose text has one or more ';' in it and no newline is,     *)
(* after a save and a load, one task with the same text and the same flag. *)
(***************************************************************************)
C14_FirstSeparatorOnly ==
    (/\ phase = "reloaded"
     /\ Len(last.pre) = 1
     /\ Contains(last.pre[1].text, ";")
     /\ ~Contains(last.pre[1].text, "\n")) => rows = last.pre

(***************************************************************************)
(* C15: whatever the file holds, no task made by the load has a newline or *)
(* a ';' in its text.                                                      *)
(***************************************************************************)
C15_LoadedTextsSanitized ==
    last.op = "load" =>
        \A i \in 1..Len(rows) :
            ~Contains(rows[i].text, "\n") /\ ~Contains(rows[i].text, ";")

(***************************************************************************)
(* C15, as amended: whatever the file holds, no task made by the load has  *)
(* a newline in its text (a ';' after the first one of a line stays in the *)
(* text).                                                                  *)
(***************************************************************************)
C15_LoadedTextsNoNewline ==
    last.op = "load" => \A i \in 1..Len(rows) : ~Contains(rows[i].text, "\n")

C15_Witness ==
    /\ last.op = "load" /\ phase = "loaded"
    /\ Contains(file.bytes, "\n")
    /\ Len(rows) = 2 /\ Contains(rows[1].text, ";")

(***************************************************************************)
(* C16: the load makes exactly one task of each line of the file, in the   *)
(* file's order, however long the line; a load after a save after a load   *)
(* has as many tasks as the load before.                                   *)
(***************************************************************************)
\* the lines of a file, each with its terminator if it has one
RECURSIVE LinesOf(_)
LinesOf(b) ==
    IF b = <<>> THEN <<>>
    ELSE IF ~Contains(b, "\n") THEN <<b>>
    ELSE LET k == CHOOSE k \in 1..Len(b) : b[k] = "\n" /\ \A j \in 1..(k - 1) : b[j] # "\n"
         IN  <<SubSeq(b, 1, k)>> \o LinesOf(SubSeq(b, k + 1, Len(b)))

C16_OneRecordPerLine ==
    /\ (last.op = "load" /\ file.exists) =>
          LET lines == LinesOf(file.bytes)
          IN  rows = [i \in 1..Len(lines) |-> LineAsTask(lines[i])]
    /\ phase = "reloaded" => Len(rows) = Len(last.pre)

(***************************************************************************)
(* C17: the load performs no save: setting the check button of a task      *)
(* loaded as completed does not run on_check_button_toggled, and tasks.txt *)
(* is as it was when the load ends.                                        *)
(***************************************************************************)
LoadDoesNotSave == last.op = "load" => last.saves = <<>>

LoadLeavesFile == last'.op = "load" => file' = file

C17_LoadNeverWrites == []LoadDoesNotSave /\ [][LoadLeavesFile]_vars

\* a task loaded as completed, from a start file no save has touched
C17_Witness ==
    /\ last.op = "load" /\ phase = "running"
    /\ Len(rows) = 1 /\ rows[1].active
    /\ file = FileOf(<<"1", ";", "a", "\n">>)

(***************************************************************************)
(* C18: a remove with no row selected leaves the list as it was and does   *)
(* not save: tasks.txt is not touched.                                     *)
(***************************************************************************)
EmptyRemoveNoSave ==
    (last.op = "remove" /\ last.arg = {}) =>
        /\ rows = last.pre
        /\ last.saves = <<>>
        /\ dirty = last.wasDirty

EmptyRemoveLeavesFile ==
    (last'.op = "remove" /\ last'.arg = {}) => (file' = file /\ rows' = rows)

C18_EmptyRemoveNoOp == []EmptyRemoveNoSave /\ [][EmptyRemoveLeavesFile]_vars

\* nothing selected, while the file lags the list after a failed save
C18_Witness ==
    /\ last.op = "remove" /\ last.arg = {}
    /\ Len(rows) = 2 /\ dirty
    /\ ~FileHolds(rows)

====
